---- MODULE Spec2Model ----
(***************************************************************************)
(* A model of app.py, the Streamlit script of the Indian Property AI       *)
(* Predictor.  Streamlit runs the script from its first line to its last   *)
(* on every user interaction; widget values live in the session between    *)
(* runs, every other name of the script is rebuilt by each run.            *)
(*                                                                         *)
(* One run is modelled as the steps                                        *)
(*   CheckFiles -> LoadArtifacts -> RenderForm                             *)
(*     -> (button pressed) Guard -> Encode -> Predict -> Present           *)
(* and the user's interactions (one action per widget) start a new run.    *)
(*                                                                         *)
(* The six pickles are not part of the script: which of them exist and     *)
(* what the encoders in them know is chosen by Init.  The regressor is     *)
(* opaque: Predict draws its result, or its failure, from a bounded set.   *)
(* Floats are modelled as exact fractions [num, den]; all values drawn     *)
(* are halves, on which float64 multiplication by 86.5 is exact.           *)
(***************************************************************************)
EXTENDS Integers, Sequences, FiniteSets, TLC

(* ---------------------------------------------------------------- data *)

(* indian_geography: the catalog dictionary, region |-> localities as listed. *)
indian_geography ==
     ("Andhra Pradesh" :> <<"Visakhapatnam", "Vijayawada", "Guntur", "Nellore", "Tirupati">>)
  @@ ("Arunachal Pradesh" :> <<"Itanagar", "Tawang", "Naharlagun">>)
  @@ ("Assam" :> <<"Guwahati", "Silchar", "Dibrugarh", "Jorhat">>)
  @@ ("Bihar" :> <<"Patna", "Gaya", "Bhagalpur", "Muzaffarpur">>)
  @@ ("Chhattisgarh" :> <<"Raipur", "Bhilai", "Bilaspur">>)
  @@ ("Goa" :> <<"Panaji", "Margao", "Vasco da Gama">>)
  @@ ("Gujarat" :> <<"Ahmedabad", "Surat", "Vadodara", "Rajkot", "Gandhinagar">>)
  @@ ("Haryana" :> <<"Gurugram", "Faridabad", "Panipat", "Ambala">>)
  @@ ("Himachal Pradesh" :> <<"Shimla", "Manali", "Dharamshala">>)
  @@ ("Jharkhand" :> <<"Ranchi", "Jamshedpur", "Dhanbad">>)
  @@ ("Karnataka" :> <<"Bengaluru", "Mysuru", "Mangaluru", "Hubli", "Belagavi">>)
  @@ ("Kerala" :> <<"Thiruvananthapuram", "Kochi", "Kozhikode", "Thrissur">>)
  @@ ("Madhya Pradesh" :> <<"Indore", "Bhopal", "Jabalpur", "Gwalior">>)
  @@ ("Maharashtra" :> <<"Mumbai", "Pune", "Nagpur", "Nashik", "Thane">>)
  @@ ("Manipur" :> <<"Imphal", "Thoubal">>)
  @@ ("Meghalaya" :> <<"Shillong", "Tura">>)
  @@ ("Mizoram" :> <<"Aizawl", "Lunglei">>)
  @@ ("Nagaland" :> <<"Dimapur", "Kohima">>)
  @@ ("Odisha" :> <<"Bhubaneswar", "Cuttack", "Rourkela", "Puri">>)
  @@ ("Punjab" :> <<"Ludhiana", "Amritsar", "Jalandhar", "Patiala", "Chandigarh">>)
  @@ ("Rajasthan" :> <<"Jaipur", "Jodhpur", "Udaipur", "Kota", "Ajmer">>)
  @@ ("Sikkim" :> <<"Gangtok", "Namchi">>)
  @@ ("Tamil Nadu" :> <<"Chennai", "Coimbatore", "Madurai", "Tiruchirappalli">>)
  @@ ("Telangana" :> <<"Hyderabad", "Warangal", "Nizamabad">>)
  @@ ("Tripura" :> <<"Agartala", "Dharmanagar">>)
  @@ ("Uttar Pradesh" :> <<"Lucknow", "Kanpur", "Varanasi", "Agra", "Noida">>)
  @@ ("Uttarakhand" :> <<"Dehradun", "Haridwar", "Roorkee", "Rishikesh">>)
  @@ ("West Bengal" :> <<"Kolkata", "Howrah", "Darjeeling", "Siliguri">>)
  @@ ("Delhi" :> <<"New Delhi", "Delhi Cantonment">>)
  @@ ("Jammu and Kashmir" :> <<"Srinagar", "Jammu", "Anantnag">>)

(* The code points of every string literal of the catalog, as str
   comparison reads them. *)
CodePoints ==
     ("Andhra Pradesh" :> <<65, 110, 100, 104, 114, 97, 32, 80, 114, 97, 100, 101, 115, 104>>)
  @@ ("Arunachal Pradesh" :> <<65, 114, 117, 110, 97, 99, 104, 97, 108, 32, 80, 114, 97, 100, 101, 115, 104>>)
  @@ ("Assam" :> <<65, 115, 115, 97, 109>>)
  @@ ("Bihar" :> <<66, 105, 104, 97, 114>>)
  @@ ("Chhattisgarh" :> <<67, 104, 104, 97, 116, 116, 105, 115, 103, 97, 114, 104>>)
  @@ ("Goa" :> <<71, 111, 97>>)
  @@ ("Gujarat" :> <<71, 117, 106, 97, 114, 97, 116>>)
  @@ ("Haryana" :> <<72, 97, 114, 121, 97, 110, 97>>)
  @@ ("Himachal Pradesh" :> <<72, 105, 109, 97, 99, 104, 97, 108, 32, 80, 114, 97, 100, 101, 115, 104>>)
  @@ ("Jharkhand" :> <<74, 104, 97, 114, 107, 104, 97, 110, 100>>)
  @@ ("Karnataka" :> <<75, 97, 114, 110, 97, 116, 97, 107, 97>>)
  @@ ("Kerala" :> <<75, 101, 114, 97, 108, 97>>)
  @@ ("Madhya Pradesh" :> <<77, 97, 100, 104, 121, 97, 32, 80, 114, 97, 100, 101, 115, 104>>)
  @@ ("Maharashtra" :> <<77, 97, 104, 97, 114, 97, 115, 104, 116, 114, 97>>)
  @@ ("Manipur" :> <<77, 97, 110, 105, 112, 117, 114>>)
  @@ ("Meghalaya" :> <<77, 101, 103, 104, 97, 108, 97, 121, 97>>)
  @@ ("Mizoram" :> <<77, 105, 122, 111, 114, 97, 109>>)
  @@ ("Nagaland" :> <<78, 97, 103, 97, 108, 97, 110, 100>>)
  @@ ("Odisha" :> <<79, 100, 105, 115, 104, 97>>)
  @@ ("Punjab" :> <<80, 117, 110, 106, 97, 98>>)
  @@ ("Rajasthan" :> <<82, 97, 106, 97, 115, 116, 104, 97, 110>>)
  @@ ("Sikkim" :> <<83, 105, 107, 107, 105, 109>>)
  @@ ("Tamil Nadu" :> <<84, 97, 109, 105, 108, 32, 78, 97, 100, 117>>)
  @@ ("Telangana" :> <<84, 101, 108, 97, 110, 103, 97, 110, 97>>)
  @@ ("Tripura" :> <<84, 114, 105, 112, 117, 114, 97>>)
  @@ ("Uttar Pradesh" :> <<85, 116, 116, 97, 114, 32, 80, 114, 97, 100, 101, 115, 104>>)
  @@ ("Uttarakhand" :> <<85, 116, 116, 97, 114, 97, 107, 104, 97, 110, 100>>)
  @@ ("West Bengal" :> <<87, 101, 115, 116, 32, 66, 101, 110, 103, 97, 108>>)
  @@ ("Delhi" :> <<68, 101, 108, 104, 105>>)
  @@ ("Jammu and Kashmir" :> <<74, 97, 109, 109, 117, 32, 97, 110, 100, 32, 75, 97, 115, 104, 109, 105, 114>>)
  @@ ("Visakhapatnam" :> <<86, 105, 115, 97, 107, 104, 97, 112, 97, 116, 110, 97, 109>>)
  @@ ("Vijayawada" :> <<86, 105, 106, 97, 121, 97, 119, 97, 100, 97>>)
  @@ ("Guntur" :> <<71, 117, 110, 116, 117, 114>>)
  @@ ("Nellore" :> <<78, 101, 108, 108, 111, 114, 101>>)
  @@ ("Tirupati" :> <<84, 105, 114, 117, 112, 97, 116, 105>>)
  @@ ("Itanagar" :> <<73, 116, 97, 110, 97, 103, 97, 114>>)
  @@ ("Tawang" :> <<84, 97, 119, 97, 110, 103>>)
  @@ ("Naharlagun" :> <<78, 97, 104, 97, 114, 108, 97, 103, 117, 110>>)
  @@ ("Guwahati" :> <<71, 117, 119, 97, 104, 97, 116, 105>>)
  @@ ("Silchar" :> <<83, 105, 108, 99, 104, 97, 114>>)
  @@ ("Dibrugarh" :> <<68, 105, 98, 114, 117, 103, 97, 114, 104>>)
  @@ ("Jorhat" :> <<74, 111, 114, 104, 97, 116>>)
  @@ ("Patna" :> <<80, 97, 116, 110, 97>>)
  @@ ("Gaya" :> <<71, 97, 121, 97>>)
  @@ ("Bhagalpur" :> <<66, 104, 97, 103, 97, 108, 112, 117, 114>>)
  @@ ("Muzaffarpur" :> <<77, 117, 122, 97, 102, 102, 97, 114, 112, 117, 114>>)
  @@ ("Raipur" :> <<82, 97, 105, 112, 117, 114>>)
  @@ ("Bhilai" :> <<66, 104, 105, 108, 97, 105>>)
  @@ ("Bilaspur" :> <<66, 105, 108, 97, 115, 112, 117, 114>>)
  @@ ("Panaji" :> <<80, 97, 110, 97, 106, 105>>)
  @@ ("Margao" :> <<77, 97, 114, 103, 97, 111>>)
  @@ ("Vasco da Gama" :> <<86, 97, 115, 99, 111, 32, 100, 97, 32, 71, 97, 109, 97>>)
  @@ ("Ahmedabad" :> <<65, 104, 109, 101, 100, 97, 98, 97, 100>>)
  @@ ("Surat" :> <<83, 117, 114, 97, 116>>)
  @@ ("Vadodara" :> <<86, 97, 100, 111, 100, 97, 114, 97>>)
  @@ ("Rajkot" :> <<82, 97, 106, 107, 111, 116>>)
  @@ ("Gandhinagar" :> <<71, 97, 110, 100, 104, 105, 110, 97, 103, 97, 114>>)
  @@ ("Gurugram" :> <<71, 117, 114, 117, 103, 114, 97, 109>>)
  @@ ("Faridabad" :> <<70, 97, 114, 105, 100, 97, 98, 97, 100>>)
  @@ ("Panipat" :> <<80, 97, 110, 105, 112, 97, 116>>)
  @@ ("Ambala" :> <<65, 109, 98, 97, 108, 97>>)
  @@ ("Shimla" :> <<83, 104, 105, 109, 108, 97>>)
  @@ ("Manali" :> <<77, 97, 110, 97, 108, 105>>)
  @@ ("Dharamshala" :> <<68, 104, 97, 114, 97, 109, 115, 104, 97, 108, 97>>)
  @@ ("Ranchi" :> <<82, 97, 110, 99, 104, 105>>)
  @@ ("Jamshedpur" :> <<74, 97, 109, 115, 104, 101, 100, 112, 117, 114>>)
  @@ ("Dhanbad" :> <<68, 104, 97, 110, 98, 97, 100>>)
  @@ ("Bengaluru" :> <<66, 101, 110, 103, 97, 108, 117, 114, 117>>)
  @@ ("Mysuru" :> <<77, 121, 115, 117, 114, 117>>)
  @@ ("Mangaluru" :> <<77, 97, 110, 103, 97, 108, 117, 114, 117>>)
  @@ ("Hubli" :> <<72, 117, 98, 108, 105>>)
  @@ ("Belagavi" :> <<66, 101, 108, 97, 103, 97, 118, 105>>)
  @@ ("Thiruvananthapuram" :> <<84, 104, 105, 114, 117, 118, 97, 110, 97, 110, 116, 104, 97, 112, 117, 114, 97, 109>>)
  @@ ("Kochi" :> <<75, 111, 99, 104, 105>>)
  @@ ("Kozhikode" :> <<75, 111, 122, 104, 105, 107, 111, 100, 101>>)
  @@ ("Thrissur" :> <<84, 104, 114, 105, 115, 115, 117, 114>>)
  @@ ("Indore" :> <<73, 110, 100, 111, 114, 101>>)
  @@ ("Bhopal" :> <<66, 104, 111, 112, 97, 108>>)
  @@ ("Jabalpur" :> <<74, 97, 98, 97, 108, 112, 117, 114>>)
  @@ ("Gwalior" :> <<71, 119, 97, 108, 105, 111, 114>>)
  @@ ("Mumbai" :> <<77, 117, 109, 98, 97, 105>>)
  @@ ("Pune" :> <<80, 117, 110, 101>>)
  @@ ("Nagpur" :> <<78, 97, 103, 112, 117, 114>>)
  @@ ("Nashik" :> <<78, 97, 115, 104, 105, 107>>)
  @@ ("Thane" :> <<84, 104, 97, 110, 101>>)
  @@ ("Imphal" :> <<73, 109, 112, 104, 97, 108>>)
  @@ ("Thoubal" :> <<84, 104, 111, 117, 98, 97, 108>>)
  @@ ("Shillong" :> <<83, 104, 105, 108, 108, 111, 110, 103>>)
  @@ ("Tura" :> <<84, 117, 114, 97>>)
  @@ ("Aizawl" :> <<65, 105, 122, 97, 119, 108>>)
  @@ ("Lunglei" :> <<76, 117, 110, 103, 108, 101, 105>>)
  @@ ("Dimapur" :> <<68, 105, 109, 97, 112, 117, 114>>)
  @@ ("Kohima" :> <<75, 111, 104, 105, 109, 97>>)
  @@ ("Bhubaneswar" :> <<66, 104, 117, 98, 97, 110, 101, 115, 119, 97, 114>>)
  @@ ("Cuttack" :> <<67, 117, 116, 116, 97, 99, 107>>)
  @@ ("Rourkela" :> <<82, 111, 117, 114, 107, 101, 108, 97>>)
  @@ ("Puri" :> <<80, 117, 114, 105>>)
  @@ ("Ludhiana" :> <<76, 117, 100, 104, 105, 97, 110, 97>>)
  @@ ("Amritsar" :> <<65, 109, 114, 105, 116, 115, 97, 114>>)
  @@ ("Jalandhar" :> <<74, 97, 108, 97, 110, 100, 104, 97, 114>>)
  @@ ("Patiala" :> <<80, 97, 116, 105, 97, 108, 97>>)
  @@ ("Chandigarh" :> <<67, 104, 97, 110, 100, 105, 103, 97, 114, 104>>)
  @@ ("Jaipur" :> <<74, 97, 105, 112, 117, 114>>)
  @@ ("Jodhpur" :> <<74, 111, 100, 104, 112, 117, 114>>)
  @@ ("Udaipur" :> <<85, 100, 97, 105, 112, 117, 114>>)
  @@ ("Kota" :> <<75, 111, 116, 97>>)
  @@ ("Ajmer" :> <<65, 106, 109, 101, 114>>)
  @@ ("Gangtok" :> <<71, 97, 110, 103, 116, 111, 107>>)
  @@ ("Namchi" :> <<78, 97, 109, 99, 104, 105>>)
  @@ ("Chennai" :> <<67, 104, 101, 110, 110, 97, 105>>)
  @@ ("Coimbatore" :> <<67, 111, 105, 109, 98, 97, 116, 111, 114, 101>>)
  @@ ("Madurai" :> <<77, 97, 100, 117, 114, 97, 105>>)
  @@ ("Tiruchirappalli" :> <<84, 105, 114, 117, 99, 104, 105, 114, 97, 112, 112, 97, 108, 108, 105>>)
  @@ ("Hyderabad" :> <<72, 121, 100, 101, 114, 97, 98, 97, 100>>)
  @@ ("Warangal" :> <<87, 97, 114, 97, 110, 103, 97, 108>>)
  @@ ("Nizamabad" :> <<78, 105, 122, 97, 109, 97, 98, 97, 100>>)
  @@ ("Agartala" :> <<65, 103, 97, 114, 116, 97, 108, 97>>)
  @@ ("Dharmanagar" :> <<68, 104, 97, 114, 109, 97, 110, 97, 103, 97, 114>>)
  @@ ("Lucknow" :> <<76, 117, 99, 107, 110, 111, 119>>)
  @@ ("Kanpur" :> <<75, 97, 110, 112, 117, 114>>)
  @@ ("Varanasi" :> <<86, 97, 114, 97, 110, 97, 115, 105>>)
  @@ ("Agra" :> <<65, 103, 114, 97>>)
  @@ ("Noida" :> <<78, 111, 105, 100, 97>>)
  @@ ("Dehradun" :> <<68, 101, 104, 114, 97, 100, 117, 110>>)
  @@ ("Haridwar" :> <<72, 97, 114, 105, 100, 119, 97, 114>>)
  @@ ("Roorkee" :> <<82, 111, 111, 114, 107, 101, 101>>)
  @@ ("Rishikesh" :> <<82, 105, 115, 104, 105, 107, 101, 115, 104>>)
  @@ ("Kolkata" :> <<75, 111, 108, 107, 97, 116, 97>>)
  @@ ("Howrah" :> <<72, 111, 119, 114, 97, 104>>)
  @@ ("Darjeeling" :> <<68, 97, 114, 106, 101, 101, 108, 105, 110, 103>>)
  @@ ("Siliguri" :> <<83, 105, 108, 105, 103, 117, 114, 105>>)
  @@ ("New Delhi" :> <<78, 101, 119, 32, 68, 101, 108, 104, 105>>)
  @@ ("Delhi Cantonment" :> <<68, 101, 108, 104, 105, 32, 67, 97, 110, 116, 111, 110, 109, 101, 110, 116>>)
  @@ ("Srinagar" :> <<83, 114, 105, 110, 97, 103, 97, 114>>)
  @@ ("Jammu" :> <<74, 97, 109, 109, 117>>)
  @@ ("Anantnag" :> <<65, 110, 97, 110, 116, 110, 97, 103>>)

(* ------------------------------------------------------------- helpers *)

Range(s) == { s[i] : i \in 1..Len(s) }

(* Python's str "<": lexicographic on code points, a proper prefix first. *)
RECURSIVE SeqLess(_, _)
SeqLess(a, b) ==
  IF b = <<>> THEN FALSE
  ELSE IF a = <<>> THEN TRUE
  ELSE IF Head(a) # Head(b) THEN Head(a) < Head(b)
  ELSE SeqLess(Tail(a), Tail(b))

Less(x, y) == SeqLess(CodePoints[x], CodePoints[y])

(* sorted(list): the ascending list of the same elements. *)
RECURSIVE Insert(_, _)
Insert(x, s) ==
  IF s = <<>> THEN <<x>>
  ELSE IF Less(x, Head(s)) THEN <<x>> \o s
  ELSE <<Head(s)>> \o Insert(x, Tail(s))

RECURSIVE sorted(_)
sorted(s) == IF s = <<>> THEN <<>> ELSE Insert(Head(s), sorted(Tail(s)))

(* list(d.keys()) in the dictionary's insertion order is not needed: the
   script sorts the keys; any enumeration of them sorts to the same list. *)
RECURSIVE SetToSeq(_)
SetToSeq(S) ==
  IF S = {} THEN <<>>
  ELSE LET x == CHOOSE y \in S : TRUE IN <<x>> \o SetToSeq(S \ {x})

(* The two selection lists of the form. *)
states == sorted(SetToSeq(DOMAIN indian_geography))

(* The localities as the dictionary lists them. *)
localities_of_Unsorted(region) == indian_geography[region]

(* sorted(indian_geography[r]) for every region r, computed once. *)
SortedLocalities ==
  [r \in DOMAIN indian_geography |-> sorted(indian_geography[r])]

localities_of(region) == SortedLocalities[region]

(* LabelEncoder: classes_ is the ascending array of the labels seen in
   training; transform([label])[0] is the label's 0-based position in it
   and raises ValueError for a label that is not in it. *)
Knows(classes, label) == label \in Range(classes)

Transform(classes, label) ==
  (CHOOSE i \in 1..Len(classes) : classes[i] = label) - 1

(* Fractions. *)
Frac(n, d) == [num |-> n, den |-> d]

NoValue == Frac(0, 0)

Times(a, b) == Frac(a.num * b.num, a.den * b.den)

(* f"{x:,.0f}": the nearest integer, a tie going to the even one. *)
Format0f(x) ==
  LET q == x.num \div x.den
      r == x.num % x.den
  IN  IF 2 * r < x.den THEN q
      ELSE IF 2 * r > x.den THEN q + 1
      ELSE IF q % 2 = 0 THEN q ELSE q + 1

(* ----------------------------------------------------------- constants *)

required_files ==
  <<"ghormach_model.pkl", "le_country.pkl", "le_state.pkl",
    "le_city.pkl", "le_type.pkl", "le_condition.pkl">>

exchange_rate == Frac(173, 2)

(* The cities the advisory names as studied. *)
Suggestions == <<"Bengaluru", "Mumbai", "New Delhi", "Chennai", "Hyderabad">>

columns ==
  <<"Year", "Country_Enc", "State_Enc", "City_Enc", "Type_Enc",
    "Size_sqm", "Bedrooms", "Condition_Enc", "Distance_km">>

BedroomOptions == <<1, 2, 3, 4, 5, 6>>

(* ---------------------------------------------------------------- bounds *)

(* The values the user tries in the number inputs and the slider: the
   widget's default and one end of its range.  Distance is in tenths. *)
Years == {2000, 2050}

Sizes == {100, 10}

Distances == {20, 0}

(* The regressor's results, in halves of a dollar: -1/2 .. MaxPredictionHalves/2. *)
MaxPredictionHalves == 3

PredictionValues == { Frac(n, 2) : n \in (-1)..MaxPredictionHalves }

(* The artifact sets tried: what train_model.py may have pickled.
   Every classes_ array is ascending. *)
ArtifactSets ==
  { [le_country   |-> <<"Bhutan", "India">>,
     le_state     |-> <<"Delhi", "Karnataka", "Maharashtra", "Tamil Nadu", "Telangana">>,
     le_city      |-> <<"Bengaluru", "Chennai", "Hyderabad", "Mumbai", "New Delhi">>,
     le_type      |-> <<"Apartment", "House">>,
     le_condition |-> <<"New", "Old">>],
    [le_country   |-> <<"India">>,
     le_state     |-> <<"Karnataka">>,
     le_city      |-> <<"Bengaluru", "Gangtok", "Mumbai">>,
     le_type      |-> <<"House">>,
     le_condition |-> <<"New">>],
    [le_country   |-> <<"Bharat">>,
     le_state     |-> <<"Delhi", "Maharashtra">>,
     le_city      |-> <<"Mumbai", "New Delhi">>,
     le_type      |-> <<"Apartment", "House">>,
     le_condition |-> <<"Old">>] }

(* ----------------------------------------------------------------- state *)

VARIABLES
  files,            \* the required files that exist on disk
  disk,             \* what the five encoder pickles hold
  pc,               \* where the current run of the script is
  clicked,          \* the button's value in the current run
  rendered,         \* the session holds widget values (a run drew the form)
  model, le_country, le_state, le_city, le_type, le_condition,
  selected_state, selected_city, cities,
  year, prop_type, size, bedrooms, condition, distance,
  input_data, prediction_usd, prediction_inr,
  output,           \* what the run has put on the page below the form
  calls             \* the transform / predict calls the run has made

artifacts == <<model, le_country, le_state, le_city, le_type, le_condition>>

widgets ==
  <<selected_state, selected_city, cities, year, prop_type, size, bedrooms,
    condition, distance>>

locals == <<input_data, prediction_usd, prediction_inr, calls>>

vars == <<files, disk, pc, clicked, rendered, artifacts, widgets, locals, output>>

Shown(kind, subject, cause, inr, usd) ==
  [kind |-> kind, subject |-> subject, cause |-> cause, inr |-> inr, usd |-> usd]

NoOutput == Shown("None", "", "", 0, 0)

Init ==
  /\ files \in SUBSET Range(required_files)
  /\ disk \in ArtifactSets
  /\ pc = "check"
  /\ clicked = FALSE
  /\ rendered = FALSE
  /\ model = "unloaded"
  /\ le_country = <<>> /\ le_state = <<>> /\ le_city = <<>>
  /\ le_type = <<>> /\ le_condition = <<>>
  /\ selected_state = "" /\ selected_city = "" /\ cities = <<>>
  /\ year = 0 /\ prop_type = "" /\ size = 0 /\ bedrooms = 0
  /\ condition = "" /\ distance = 0
  /\ input_data = <<>>
  /\ prediction_usd = NoValue /\ prediction_inr = NoValue
  /\ output = NoOutput
  /\ calls = <<>>

(* ------------------------------------------------------- the script run *)

(* A loop that stops one file short of the list. *)
FirstMissing_StopsShort(present) ==
  LET absent == { i \in 1..(Len(required_files) - 1) : required_files[i] \notin present }
  IN  IF absent = {} THEN 0
      ELSE CHOOSE i \in absent : \A j \in absent : i <= j

(* Lines 10-14: the first required file that does not exist, 0 if none. *)
FirstMissing(present) ==
  LET absent == { i \in 1..Len(required_files) : required_files[i] \notin present }
  IN  IF absent = {} THEN 0
      ELSE CHOOSE i \in absent : \A j \in absent : i <= j

CheckFiles ==
  /\ pc = "check"
  /\ LET m == FirstMissing(files)
     IN  IF m # 0
         THEN /\ output' = Shown("MissingFile", required_files[m], "", 0, 0)
              /\ pc' = "stopped"
         ELSE /\ pc' = "load"
              /\ UNCHANGED output
  /\ UNCHANGED <<files, disk, clicked, rendered, artifacts, widgets, locals>>

(* Lines 17-22: joblib.load of the six files, in this order.  A file that
   does not exist raises out of the script. *)
LoadArtifacts ==
  /\ pc = "load"
  /\ LET gone == { i \in 1..Len(required_files) : required_files[i] \notin files }
         m == IF gone = {} THEN 0 ELSE CHOOSE i \in gone : \A j \in gone : i <= j
         got(i) == m = 0 \/ i < m
     IN  /\ model' = IF got(1) THEN "loaded" ELSE model
         /\ le_country' = IF got(2) THEN disk.le_country ELSE le_country
         /\ le_state' = IF got(3) THEN disk.le_state ELSE le_state
         /\ le_city' = IF got(4) THEN disk.le_city ELSE le_city
         /\ le_type' = IF got(5) THEN disk.le_type ELSE le_type
         /\ le_condition' = IF got(6) THEN disk.le_condition ELSE le_condition
         /\ IF m = 0
            THEN pc' = "form" /\ UNCHANGED output
            ELSE /\ pc' = "stopped"
                 /\ output' = Shown("Uncaught", required_files[m], "FileNotFoundError", 0, 0)
  /\ UNCHANGED <<files, disk, clicked, rendered, widgets, locals>>

(* A select box that keeps the session's value whatever its options are. *)
selectbox_KeepsValue(options, drawn_with, value) ==
  IF rendered THEN value ELSE options[1]

(* st.selectbox(label, options): the session's value for this widget, or
   the first option when the session has none.  A select box whose options
   differ from the ones it was drawn with is another widget. *)
selectbox(options, drawn_with, value) ==
  IF rendered /\ options = drawn_with THEN value ELSE options[1]

(* st.number_input / st.slider: the session's value, or the default. *)
number_input(default, value) == IF rendered THEN value ELSE default

(* A button that reads as pressed in every run. *)
button_AlwaysPressed == TRUE

(* Line 97: st.button is True only in the run its press started. *)
button == clicked

(* Lines 59-97: the form, then the button. *)
RenderForm ==
  /\ pc = "form"
  /\ selected_state' = selectbox(states, states, selected_state)
  /\ cities' = localities_of(selected_state')
  /\ selected_city' = selectbox(cities', cities, selected_city)
  /\ \E current_year \in Years : year' = number_input(current_year, year)
  /\ prop_type' = selectbox(le_type, le_type, prop_type)
  /\ size' = number_input(100, size)
  /\ bedrooms' = selectbox(BedroomOptions, BedroomOptions, bedrooms)
  /\ condition' = selectbox(le_condition, le_condition, condition)
  /\ distance' = number_input(20, distance)
  /\ rendered' = TRUE
  /\ pc' = IF button THEN "guard" ELSE "idle"
  /\ UNCHANGED <<files, disk, clicked, artifacts, locals, output>>

(* A guard that asks the catalog instead of the encoder. *)
CityIsKnown_AsksCatalog ==
  selected_city \in Range(indian_geography[selected_state])

(* Lines 99-101: the locality-known guard and the advisory. *)
CityIsKnown == selected_city \in Range(le_city)

Guard ==
  /\ pc = "guard"
  /\ IF ~CityIsKnown
     THEN /\ output' = Shown("Advisory", selected_city, "", 0, 0)
          /\ pc' = "idle"
     ELSE /\ pc' = "encode"
          /\ UNCHANGED output
  /\ UNCHANGED <<files, disk, clicked, rendered, artifacts, widgets, locals>>

(* except: pass *)
Except_Swallows(subject, cause) ==
  [pc |-> "idle", output |-> NoOutput]

(* No handler: the exception leaves the script. *)
Except_Reraises(subject, cause) ==
  [pc |-> "stopped", output |-> Shown("Uncaught", subject, cause, 0, 0)]

(* Lines 128-129: except Exception as e: st.error(f"Prediction error: {e}"). *)
Except(subject, cause) ==
  [pc |-> "idle", output |-> Shown("Failure", subject, cause, 0, 0)]

(* Lines 106-110: the five transform calls, in the order made. *)
Encodings ==
  << <<"le_country", le_country, "India">>,
     <<"le_state", le_state, selected_state>>,
     <<"le_city", le_city, selected_city>>,
     <<"le_type", le_type, prop_type>>,
     <<"le_condition", le_condition, condition>> >>

FirstUnseen ==
  LET bad == { i \in 1..Len(Encodings) : ~Knows(Encodings[i][2], Encodings[i][3]) }
  IN  IF bad = {} THEN 0
      ELSE CHOOSE i \in bad : \A j \in bad : i <= j

(* Size and bedrooms in each other's place. *)
Row_Swapped(y, country_enc, state_enc, city_enc, type_enc, sz, beds, condition_enc, dist) ==
  <<y, country_enc, state_enc, city_enc, type_enc, beds, sz, condition_enc, dist>>

(* Lines 112-113: the one row of the DataFrame, in column order. *)
Row(y, country_enc, state_enc, city_enc, type_enc, sz, beds, condition_enc, dist) ==
  <<y, country_enc, state_enc, city_enc, type_enc, sz, beds, condition_enc, dist>>

Encode ==
  /\ pc = "encode"
  /\ LET u == FirstUnseen
         made == IF u = 0 THEN Len(Encodings) ELSE u
     IN  /\ calls' = calls \o [i \in 1..made |-> Encodings[i][1] \o ".transform"]
         /\ IF u # 0
            THEN LET e == Except(Encodings[u][3], "ValueError")
                 IN  /\ pc' = e.pc
                     /\ output' = e.output
                     /\ UNCHANGED input_data
            ELSE /\ input_data' =
                      Row(year,
                          Transform(le_country, "India"),
                          Transform(le_state, selected_state),
                          Transform(le_city, selected_city),
                          Transform(le_type, prop_type),
                          size, bedrooms,
                          Transform(le_condition, condition),
                          distance)
                 /\ pc' = "predict"
                 /\ UNCHANGED output
  /\ UNCHANGED <<files, disk, clicked, rendered, artifacts, widgets,
                 prediction_usd, prediction_inr>>

(* Line 115: model.predict(input_data)[0], a value or an exception. *)
Predict ==
  /\ pc = "predict"
  /\ calls' = Append(calls, "model.predict")
  /\ \/ \E v \in PredictionValues :
          /\ prediction_usd' = v
          /\ pc' = "present"
          /\ UNCHANGED output
     \/ LET e == Except("model", "Exception")
        IN  /\ pc' = e.pc
            /\ output' = e.output
            /\ UNCHANGED prediction_usd
  /\ UNCHANGED <<files, disk, clicked, rendered, artifacts, widgets,
                 input_data, prediction_inr>>

(* The rate applied to the displayed dollars. *)
Convert_FromRounded(usd) == Times(Frac(Format0f(usd), 1), exchange_rate)

(* Lines 117-118. *)
Convert(usd) == Times(usd, exchange_rate)

(* Lines 120-126: the header and the two metrics. *)
Present ==
  /\ pc = "present"
  /\ prediction_inr' = Convert(prediction_usd)
  /\ output' = Shown("Success", selected_city, "",
                     Format0f(prediction_inr'), Format0f(prediction_usd))
  /\ pc' = "idle"
  /\ UNCHANGED <<files, disk, clicked, rendered, artifacts, widgets,
                 input_data, prediction_usd, calls>>

(* ------------------------------------------------- the user's interactions *)

(* An interaction ends the finished run and starts the script again: the
   session keeps the widget values, every other name is gone. *)
Rerun(pressed) ==
  /\ pc' = "check"
  /\ clicked' = pressed
  /\ model' = "unloaded"
  /\ le_country' = <<>> /\ le_state' = <<>> /\ le_city' = <<>>
  /\ le_type' = <<>> /\ le_condition' = <<>>
  /\ input_data' = <<>>
  /\ prediction_usd' = NoValue /\ prediction_inr' = NoValue
  /\ output' = NoOutput
  /\ calls' = <<>>
  /\ UNCHANGED <<files, disk, rendered>>

(* The City select box of the next run has other options, hence is another
   widget: the session's value for the old one is never read again and is
   dropped here rather than carried to RenderForm. *)
SelectState ==
  /\ pc = "idle"
  /\ \E s \in Range(states) : s # selected_state /\ selected_state' = s
  /\ selected_city' = ""
  /\ cities' = <<>>
  /\ Rerun(FALSE)
  /\ UNCHANGED <<year, prop_type, size, bedrooms, condition, distance>>

SelectCity ==
  /\ pc = "idle"
  /\ \E c \in Range(cities) : c # selected_city /\ selected_city' = c
  /\ Rerun(FALSE)
  /\ UNCHANGED <<selected_state, cities, year, prop_type, size, bedrooms,
                 condition, distance>>

SetYear ==
  /\ pc = "idle"
  /\ \E y \in Years : y # year /\ year' = y
  /\ Rerun(FALSE)
  /\ UNCHANGED <<selected_state, selected_city, cities, prop_type, size,
                 bedrooms, condition, distance>>

SelectType ==
  /\ pc = "idle"
  /\ \E t \in Range(le_type) : t # prop_type /\ prop_type' = t
  /\ Rerun(FALSE)
  /\ UNCHANGED <<selected_state, selected_city, cities, year, size,
                 bedrooms, condition, distance>>

SetSize ==
  /\ pc = "idle"
  /\ \E s \in Sizes : s # size /\ size' = s
  /\ Rerun(FALSE)
  /\ UNCHANGED <<selected_state, selected_city, cities, year, prop_type,
                 bedrooms, condition, distance>>

SelectBedrooms ==
  /\ pc = "idle"
  /\ \E b \in Range(BedroomOptions) : b # bedrooms /\ bedrooms' = b
  /\ Rerun(FALSE)
  /\ UNCHANGED <<selected_state, selected_city, cities, year, prop_type,
                 size, condition, distance>>

SelectCondition ==
  /\ pc = "idle"
  /\ \E c \in Range(le_condition) : c # condition /\ condition' = c
  /\ Rerun(FALSE)
  /\ UNCHANGED <<selected_state, selected_city, cities, year, prop_type,
                 size, bedrooms, distance>>

SetDistance ==
  /\ pc = "idle"
  /\ \E d \in Distances : d # distance /\ distance' = d
  /\ Rerun(FALSE)
  /\ UNCHANGED <<selected_state, selected_city, cities, year, prop_type,
                 size, bedrooms, condition>>

ClickButton ==
  /\ pc = "idle"
  /\ Rerun(TRUE)
  /\ UNCHANGED widgets

(* ---------------------------------------------------------- specification *)

Script ==
  \/ CheckFiles
  \/ LoadArtifacts
  \/ RenderForm
  \/ Guard
  \/ Encode
  \/ Predict
  \/ Present

User ==
  \/ SelectState
  \/ SelectCity
  \/ SetYear
  \/ SelectType
  \/ SetSize
  \/ SelectBedrooms
  \/ SelectCondition
  \/ SetDistance
  \/ ClickButton

Next == Script \/ User

Spec == Init /\ [][Next]_vars

(* The interpreter keeps executing a run it has started; the user owes
   nothing. *)
FairSpec == Spec /\ WF_vars(Script)

(* ---------------------------------------------------------------- claims *)

Pipeline == {"guard", "encode", "predict", "present"}

(* The run the button started has ended. *)
Ended == clicked /\ pc = "idle"

AllFiles == Range(required_files)

InVocabulary(classes, label) == \E i \in 1..Len(classes) : classes[i] = label

OtherLabelsKnown ==
  /\ InVocabulary(le_country, "India")
  /\ InVocabulary(le_state, selected_state)
  /\ InVocabulary(le_type, prop_type)
  /\ InVocabulary(le_condition, condition)

Abs(n) == IF n < 0 THEN 0 - n ELSE n

(* C1: a run whose selected locality is not among the locality encoder's
   known labels ends in the advisory naming that locality, having made no
   transform call and no predict call; the steps after the guard are
   reached only with a known locality. *)
C1_UnknownLocalityIsAdvised ==
  /\ (Ended /\ ~InVocabulary(le_city, selected_city)) =>
        /\ output = Shown("Advisory", selected_city, "", 0, 0)
        /\ calls = <<>>
        /\ input_data = <<>>
        /\ prediction_usd = NoValue
  /\ (pc \in Pipeline \ {"guard"} \/ calls # <<>>) =>
        InVocabulary(le_city, selected_city)

C1_Witness ==
  /\ Ended
  /\ selected_state = "Sikkim"
  /\ selected_city = "Gangtok"
  /\ ~InVocabulary(le_city, "Gangtok")
  /\ output.kind = "Advisory"

(* C2, as claimed: a run whose selected locality is known to the locality
   encoder ends in Success. *)
C2_KnownLocalitySucceeds ==
  (Ended /\ InVocabulary(le_city, selected_city)) => output.kind = "Success"

(* C2, amended: a run whose selected locality is known to the locality
   encoder ends in Success when 'India', the region, the property type and
   the condition are known to their encoders and the model call returned a
   value, and ends in Failure otherwise. *)
C2_KnownLocalitySucceedsOrFails ==
  (Ended /\ InVocabulary(le_city, selected_city)) =>
     output.kind = IF OtherLabelsKnown /\ "model.predict" \in Range(calls)
                      /\ prediction_usd # NoValue
                   THEN "Success"
                   ELSE "Failure"

C2_Witness ==
  /\ Ended
  /\ selected_state = "Maharashtra"
  /\ selected_city = "Mumbai"
  /\ year = 2050 /\ size = 10 /\ bedrooms = 3 /\ distance = 0
  /\ output.kind = "Success"

(* C3: in every Success the rupee value is the model's unrounded output
   times 86.5, each displayed value is a whole number nearest to the value
   it displays, and the result names the selected locality. *)
C3_ConversionAndRounding ==
  output.kind = "Success" =>
    /\ prediction_usd \in PredictionValues
    /\ prediction_inr.den > 0
    /\ 2 * prediction_inr.num * prediction_usd.den
         = 173 * prediction_usd.num * prediction_inr.den
    /\ 2 * Abs(output.inr * prediction_inr.den - prediction_inr.num)
         <= prediction_inr.den
    /\ 2 * Abs(output.usd * prediction_usd.den - prediction_usd.num)
         <= prediction_usd.den
    /\ output.subject = selected_city

C3_Witness ==
  /\ output.kind = "Success"
  /\ prediction_usd = Frac(1, 2)
  /\ output.usd = 0
  /\ output.inr = 43
  /\ output.subject = "Mumbai"

CodeOf(classes, code, label) ==
  /\ code \in 0..(Len(classes) - 1)
  /\ classes[code + 1] = label

(* C4: a feature vector handed to the model has 9 fields, in the order
   year, country code, region code, locality code, type code, size,
   bedrooms, condition code, distance; every code is the position of the
   matching selection in the matching encoder's classes, and every scalar
   is the user's selection. *)
C4_FeatureOrder ==
  (input_data # <<>> \/ pc \in {"predict", "present"}) =>
    /\ Len(input_data) = 9
    /\ Len(columns) = 9
    /\ input_data[1] = year
    /\ CodeOf(le_country, input_data[2], "India")
    /\ CodeOf(le_state, input_data[3], selected_state)
    /\ CodeOf(le_city, input_data[4], selected_city)
    /\ CodeOf(le_type, input_data[5], prop_type)
    /\ input_data[6] = size
    /\ input_data[7] = bedrooms
    /\ CodeOf(le_condition, input_data[8], condition)
    /\ input_data[9] = distance

C4_Witness ==
  /\ pc = "predict"
  /\ selected_city = "Mumbai"
  /\ input_data = <<2050, 1, 2, 3, 1, 10, 6, 1, 0>>

(* C5: when a required file is absent the run reports a file that is
   absent (the absent one, when it is the only one), loads nothing, draws
   no form and stops; the pipeline is reached only with all six present. *)
C5_MissingArtifactHalts ==
  LET absent == AllFiles \ files
  IN  /\ (absent # {} /\ pc # "check") =>
            /\ pc = "stopped"
            /\ output.kind = "MissingFile"
            /\ output.subject \in absent
            /\ (Cardinality(absent) = 1 => absent = {output.subject})
            /\ model = "unloaded"
            /\ le_country = <<>> /\ le_state = <<>> /\ le_city = <<>>
            /\ le_type = <<>> /\ le_condition = <<>>
            /\ ~rendered
            /\ ~clicked
            /\ calls = <<>>
      /\ (pc \in Pipeline \/ pc = "idle") =>
            /\ absent = {}
            /\ model = "loaded"

C5_Witness ==
  /\ pc = "stopped"
  /\ files = AllFiles \ {"le_condition.pkl"}
  /\ output = Shown("MissingFile", "le_condition.pkl", "", 0, 0)

FirstUnknownLabel ==
  IF ~InVocabulary(le_country, "India") THEN "India"
  ELSE IF ~InVocabulary(le_state, selected_state) THEN selected_state
  ELSE IF ~InVocabulary(le_type, prop_type) THEN prop_type
  ELSE condition

(* C6: past the guard, a label unknown to its encoder or a failing model
   call ends the run in Failure carrying the cause; the script is not left
   by an exception, and the button can be pressed again. *)
C6_FailuresAreCaught ==
  /\ (Ended /\ InVocabulary(le_city, selected_city) /\ ~OtherLabelsKnown) =>
        output = Shown("Failure", FirstUnknownLabel, "ValueError", 0, 0)
  /\ (Ended /\ InVocabulary(le_city, selected_city) /\ OtherLabelsKnown
        /\ prediction_usd = NoValue) =>
        output = Shown("Failure", "model", "Exception", 0, 0)
  /\ output.kind = "Failure" => (pc = "idle" /\ ENABLED ClickButton)
  /\ output.kind # "Uncaught"
  /\ (pc = "stopped" => ~rendered)

C6_Witness ==
  /\ Ended
  /\ selected_city = "Mumbai"
  /\ output = Shown("Failure", "Maharashtra", "ValueError", 0, 0)

Ascending(l) == \A i \in 1..(Len(l) - 1) : Less(l[i], l[i + 1])

CatalogWellFormed ==
  /\ \A r \in DOMAIN indian_geography :
        /\ Len(localities_of(r)) > 0
        /\ Ascending(localities_of(r))
        /\ Range(localities_of(r)) = Range(indian_geography[r])
  /\ \A r1, r2 \in DOMAIN indian_geography :
        r1 # r2 => Range(indian_geography[r1]) \cap Range(indian_geography[r2]) = {}

(* C7: every region of the catalog has a non-empty list of localities,
   offered in ascending order, and no locality is listed under two
   regions; the list the form offers is the one of the selected region. *)
C7_CatalogWellFormed ==
  /\ CatalogWellFormed
  /\ (rendered /\ cities # <<>>) =>
        /\ Ascending(cities)
        /\ Range(cities) = Range(indian_geography[selected_state])

C7_Witness ==
  /\ pc = "idle"
  /\ selected_state = "Andhra Pradesh"
  /\ cities = <<"Guntur", "Nellore", "Tirupati", "Vijayawada", "Visakhapatnam">>

(* C8: whenever the pipeline runs, the selected region is a key of the
   catalog and the selected locality is listed under that region. *)
C8_SelectionInCatalog ==
  (pc \in Pipeline \/ Ended) =>
    /\ selected_state \in DOMAIN indian_geography
    /\ selected_city \in Range(indian_geography[selected_state])

C8_Witness ==
  /\ pc = "guard"
  /\ selected_state = "West Bengal"
  /\ selected_city = "Siliguri"

(* C9, as claimed: every locality the advisory suggests is among the
   locality encoder's known labels. *)
C9_SuggestionsAreKnown ==
  output.kind = "Advisory" =>
    \A i \in 1..Len(Suggestions) : InVocabulary(le_city, Suggestions[i])

StageOf(p) ==
  CASE p = "guard" -> 1
    [] p = "encode" -> 2
    [] p = "predict" -> 3
    [] p = "present" -> 4
    [] p = "idle" -> 5
    [] OTHER -> 0

FiveTransforms ==
  <<"le_country.transform", "le_state.transform", "le_city.transform",
    "le_type.transform", "le_condition.transform">>

C10_Safety ==
  /\ pc \in Pipeline => clicked
  /\ pc = "guard" =>
        /\ input_data = <<>>
        /\ prediction_usd = NoValue /\ prediction_inr = NoValue
        /\ calls = <<>>
  /\ pc \in Pipeline => output = NoOutput
  /\ Cardinality({ i \in 1..Len(calls) : calls[i] = "model.predict" }) <= 1
  /\ "model.predict" \in Range(calls) =>
        /\ calls = Append(FiveTransforms, "model.predict")
        /\ InVocabulary(le_city, selected_city)
  /\ Ended => output.kind \in {"Advisory", "Success", "Failure"}
  /\ ~clicked => output.kind \in {"None", "MissingFile"}

MovesForward == pc \in Pipeline => (StageOf(pc') > StageOf(pc))

(* C10: a run reaches the pipeline only by a press of the button and
   starts it with nothing of an earlier run; it moves forward only, calls
   the model at most once and only after the guard passed and the five
   transforms returned; it ends in exactly one of Advisory, Success and
   Failure, and it does end. *)
C10_SinglePass ==
  /\ [] C10_Safety
  /\ [][MovesForward]_vars
  /\ (pc = "guard") ~> Ended

C10_Witness ==
  /\ Ended
  /\ output.kind = "Success"
  /\ calls = Append(FiveTransforms, "model.predict")

====
